---- MODULE Spec2Model ----
(***************************************************************************)
(* Biotopia: the creature's structure analysis, its structural transforms  *)
(* and mutations, and the simulation step of the Zoo, as state machines.   *)
(* A coordinate is a pair <<x, y>>.                                        *)
(***************************************************************************)
EXTENDS Integers, Sequences, FiniteSets, TLC

VARIABLES
    creature,   \* the Creature being constructed / analysed (SpecAnalyze)
    an,         \* the locals of a running analyze(): pc, to_visit, visited, ...
    given,      \* the arguments cells and head of Creature.__init__
    op,         \* the operation that ran last
    error,      \* the exception that ended the run, "none" while there is none
    conf,       \* the Zoo's size, offspring_energy, energy_loss, energy_gain,
                \* wrap_horizontal, wrap_vertical, mutation_probability
    creatures,  \* Zoo.creatures: the live creatures, by identity
    food,       \* Zoo.food.items
    keys,       \* Zoo.keys.items
    last_id,    \* the identity of the last Creature object made
    tick        \* what the last step() did: its number, the particles it
                \* began with, and for each creature it iterated the creature
                \* and the particles before, between and after the parts of
                \* its pass

creatureVars == <<creature, an, given, op>>

zooVars == <<conf, creatures, food, keys, last_id, tick>>

vars == <<creature, an, given, op, error, conf, creatures, food, keys,
          last_id, tick>>

----------------------------------------------------------------------------
(* Bounds *)

\* the largest number of cells of a body
MaxCells == 5

\* the largest number of cells of a creature born in the Zoo
MaxBorn == 6

\* the largest number of cells of a cell set handed to the constructor
MaxRaw == 6

\* the coordinates such a cell set is drawn from
WindowX == {-1, 0, 1, 2}

WindowY == {-1, 0, 1}

----------------------------------------------------------------------------
(* Grid geometry *)

neighbours(cell) ==
    { <<cell[1] - 1, cell[2]>>, <<cell[1], cell[2] - 1>>,
      <<cell[1], cell[2] + 1>>, <<cell[1] + 1, cell[2]>> }

sign(x) == IF x < 0 THEN -1 ELSE IF x = 0 THEN 0 ELSE 1

abs(x) == IF x < 0 THEN -x ELSE x

Max(a, b) == IF a >= b THEN a ELSE b

\* itertools.repeat(x, n)
repeat(x, n) == [i \in 1..n |-> x]

\* itertools.izip_longest(a, b, fillvalue = fill)
izip_longest(a, b, fill) ==
    [i \in 1..Max(Len(a), Len(b)) |->
        << IF i <= Len(a) THEN a[i] ELSE fill,
           IF i <= Len(b) THEN b[i] ELSE fill >>]

----------------------------------------------------------------------------
(* Creature.analyze *)

\* the locals of analyze() on entry
AnalyzeEntry(head) ==
    [pc |-> "loop", to_visit |-> {head}, visited |-> {}, mouths |-> {},
     horizontal |-> 0, vertical |-> 0]

\* the test that raises "Invalid structure: cycle found"
CycleFoundLoose(visited, possible_neighs) ==
    Cardinality(visited \cap possible_neighs) > 2

CycleFound(visited, possible_neighs) ==
    Cardinality(visited \cap possible_neighs) > 1

\* the leaf ("movement cell") branch: the bias after a cell with the single
\* neighbour cell_neigh; "raised" is set on the branch that raises
LeafBiasAway(st, cell, cell_neigh) ==
    IF cell_neigh[1] = cell[1] - 1 THEN [st EXCEPT !.horizontal = @ + 1]
    ELSE IF cell_neigh[1] = cell[1] + 1 THEN [st EXCEPT !.horizontal = @ - 1]
    ELSE IF cell_neigh[2] = cell[2] - 1 THEN [st EXCEPT !.vertical = @ - 1]
    ELSE IF cell_neigh[2] = cell[2] + 1 THEN [st EXCEPT !.vertical = @ + 1]
    ELSE [st EXCEPT !.pc = "unexpected"]

LeafBias(st, cell, cell_neigh) ==
    IF cell_neigh[1] = cell[1] - 1 THEN [st EXCEPT !.horizontal = @ - 1]
    ELSE IF cell_neigh[1] = cell[1] + 1 THEN [st EXCEPT !.horizontal = @ + 1]
    ELSE IF cell_neigh[2] = cell[2] - 1 THEN [st EXCEPT !.vertical = @ - 1]
    ELSE IF cell_neigh[2] = cell[2] + 1 THEN [st EXCEPT !.vertical = @ + 1]
    ELSE [st EXCEPT !.pc = "unexpected"]

\* the mouths found around one visited cell
MouthThreshold == 3

NewMouths(cells, mouths, possible_neighs, cell_neighs) ==
    { n \in possible_neighs :
        /\ n \notin cell_neighs
        /\ n \notin mouths
        /\ Cardinality(cells \cap neighbours(n)) >= MouthThreshold }

\* one pass of the while loop, popping cell from to_visit
AnalyzeVisit(cells, st, cell) ==
    LET visited == st.visited \cup {cell}
        possible_neighs == neighbours(cell)
        cell_neighs == cells \cap possible_neighs
        popped == [st EXCEPT !.to_visit = @ \ {cell}, !.visited = visited]
    IN  IF CycleFound(visited, possible_neighs)
        THEN [popped EXCEPT !.pc = "cycle"]
        ELSE LET biased == IF Cardinality(cell_neighs) = 1
                           THEN LeafBias(popped, cell,
                                         CHOOSE n \in cell_neighs : TRUE)
                           ELSE popped
             IN  IF biased.pc # "loop" THEN biased
                 ELSE [biased EXCEPT
                         !.to_visit = @ \cup { n \in cell_neighs : n \notin visited },
                         !.mouths = @ \cup NewMouths(cells, st.mouths,
                                                     possible_neighs, cell_neighs)]

\* the movement cycle, as the finite sequence that is repeated
MovementNoPause(horizontal, vertical) ==
    izip_longest(repeat(sign(horizontal), abs(horizontal)),
                 repeat(sign(vertical), abs(vertical)), 0)

Movement(horizontal, vertical) ==
    << <<0, 0>> >> \o
    izip_longest(repeat(sign(horizontal), abs(horizontal)),
                 repeat(sign(vertical), abs(vertical)), 0)

\* "normalize all for head to be at 0,0": the cells after the last statement
Normalize(cells, head) ==
    IF head # <<0, 0>>
    THEN { <<c[1] - head[1], c[2] - head[2]>> : c \in cells }
    ELSE cells

\* the test that raises "Invalid structure: unconnected cells"
Unconnected(visited, cells) == Cardinality(visited) < Cardinality(cells)

\* the statements after the loop: the creature and the exception, if any.
\* self.mouths was rebound at entry and filled in place; self.head is not
\* assigned anywhere in analyze.
AnalyzeFinish(c, st) ==
    IF Unconnected(st.visited, c.cells)
    THEN [c |-> [c EXCEPT !.mouths = st.mouths], raised |-> "unconnected"]
    ELSE [c |-> [c EXCEPT !.mouths = st.mouths,
                          !.movement = Movement(st.horizontal, st.vertical),
                          !.cursor = 0,
                          !.cells = Normalize(c.cells, c.head)],
          raised |-> "none"]

\* the exception of a loop pass that raised
Raised(pc) ==
    IF pc = "cycle" THEN "cycle" ELSE "unexpected"

\* next(creature.movement) on the itertools.cycle: the vector and the cursor
NextVector(c) == c.movement[c.cursor + 1]

NextCursor(c) == (c.cursor + 1) % Len(c.movement)

\* Creature.__init__ up to the call of analyze
NewCreature(position, cells, head, energy) ==
    [position |-> position, cells |-> cells, head |-> head,
     energy |-> energy, age |-> 0,
     mouths |-> {}, movement |-> << >>, cursor |-> 0]

\* the loop of analyze run to its end from each of the locals in S: the final
\* locals, for every order in which to_visit.pop() may hand out the cells
RECURSIVE TraverseAll(_, _)
TraverseAll(cells, S) ==
    IF \A st \in S : st.pc # "loop" \/ st.to_visit = {} THEN S
    ELSE TraverseAll(cells,
            UNION { IF st.pc # "loop" \/ st.to_visit = {} THEN {st}
                    ELSE { AnalyzeVisit(cells, st, cell) : cell \in st.to_visit }
                    : st \in S })

Traverse(cells, st) == TraverseAll(cells, {st})

\* analyze(): the creature after the call, the exception it raised and its
\* final locals
analyze(c) ==
    { IF st.pc = "loop"
      THEN LET r == AnalyzeFinish(c, st)
           IN  [c |-> r.c, raised |-> r.raised, an |-> st]
      ELSE [c |-> [c EXCEPT !.mouths = st.mouths], raised |-> Raised(st.pc), an |-> st]
      : st \in Traverse(c.cells, AnalyzeEntry(c.head)) }

\* Creature(position, cells, head, energy)
Creature(position, cells, head, energy) ==
    analyze(NewCreature(position, cells, head, energy))

\* the body of the default ancestor
AncestorCells == { <<-1, 1>>, <<-1, 0>>, <<0, 0>>, <<1, 0>>, <<1, 1>> }

----------------------------------------------------------------------------
(* Structural transforms and mutations *)

mirror_horizontal(c) ==
    analyze([c EXCEPT !.cells = { <<-x[1], x[2]>> : x \in c.cells }])

\* a vertical mirror that negates the x coordinates instead
mirror_vertical_as_horizontal(c) ==
    analyze([c EXCEPT !.cells = { <<-x[1], x[2]>> : x \in c.cells }])

mirror_vertical(c) ==
    analyze([c EXCEPT !.cells = { <<x[1], -x[2]>> : x \in c.cells }])

rotate_right(c) ==
    analyze([c EXCEPT !.cells = { <<x[2], -x[1]>> : x \in c.cells }])

rotate_left_as_right(c) ==
    analyze([c EXCEPT !.cells = { <<x[2], -x[1]>> : x \in c.cells }])

rotate_left(c) ==
    analyze([c EXCEPT !.cells = { <<-x[2], x[1]>> : x \in c.cells }])

\* "if there is only one living cell neighbour"
OneLivingNeighbourOrMore(cells, cell) ==
    Cardinality(cells \cap neighbours(cell)) >= 1

NoLivingNeighbour(cells, cell) ==
    Cardinality(cells \cap neighbours(cell)) = 0

OneLivingNeighbour(cells, cell) ==
    Cardinality(cells \cap neighbours(cell)) = 1

\* the scan of add_random_cell over the cells not yet looked at: the empty
\* cells it may add, for every order of the two sample() calls, and
\* added = FALSE when the scan can end without adding. A cell's empty
\* neighbours are tried in a random order and the first with one living
\* neighbour is taken, so each of them can be the one.
RECURSIVE AddScan(_, _, _)
AddScan(cells, remaining, visited_empty_neighs) ==
    IF remaining = {} THEN { [added |-> FALSE, cell |-> <<0, 0>>] }
    ELSE UNION {
        LET empty_neighs == (neighbours(cell) \ cells) \ visited_empty_neighs
            hits == { e \in empty_neighs : OneLivingNeighbour(cells, e) }
        IN  IF hits # {}
            THEN { [added |-> TRUE, cell |-> e] : e \in hits }
            ELSE AddScan(cells, remaining \ {cell},
                         visited_empty_neighs \cup empty_neighs)
        : cell \in remaining }

\* add_random_cell(): the outcomes; ret is the value returned
add_random_cell(c) ==
    UNION {
        IF r.added
        THEN { [c |-> a.c, raised |-> a.raised, an |-> a.an, ret |-> TRUE] :
               a \in analyze([c EXCEPT !.cells = @ \cup {r.cell}]) }
        ELSE { [c |-> c, raised |-> "could not add cell",
                an |-> AnalyzeEntry(c.head), ret |-> FALSE] }
        : r \in AddScan(c.cells, c.cells, {}) }

\* the cells remove_random_cell may remove: it takes the first cell of a
\* random order that is not the head and has one living neighbour
RemovableWithHead(c) ==
    { cell \in c.cells : OneLivingNeighbour(c.cells, cell) }

Removable(c) ==
    { cell \in c.cells : cell # c.head /\ OneLivingNeighbour(c.cells, cell) }

\* remove_random_cell(): the outcomes; ret is the value returned
remove_random_cell(c) ==
    IF Removable(c) = {}
    THEN { [c |-> c, raised |-> "none", an |-> AnalyzeEntry(c.head), ret |-> FALSE] }
    ELSE UNION {
        { [c |-> a.c, raised |-> a.raised, an |-> a.an, ret |-> TRUE] :
          a \in analyze([c EXCEPT !.cells = @ \ {cell}]) }
        : cell \in Removable(c) }

\* mutate(), for the value coin of randint(0,1)
mutate_both(c, coin) ==
    IF coin = 0
    THEN add_random_cell(c)
    ELSE UNION { IF r.raised # "none" THEN {r} ELSE add_random_cell(r.c)
                 : r \in remove_random_cell(c) }

mutate(c, coin) ==
    IF coin = 0
    THEN add_random_cell(c)
    ELSE UNION { IF r.ret \/ r.raised # "none" THEN {r} ELSE add_random_cell(r.c)
                 : r \in remove_random_cell(c) }

\* no Zoo has been built
NoZoo ==
    /\ conf = [size |-> <<0, 0>>]
    /\ creatures = << >>
    /\ food = << >>
    /\ keys = << >>
    /\ last_id = 0
    /\ tick = [n |-> 0]

----------------------------------------------------------------------------
(* SpecAnalyze: Creature(position, cells, head) and its analysis, one loop  *)
(* pass at a time, for every order in which to_visit.pop() may hand out the *)
(* cells.                                                                   *)

\* the cell sets handed to the constructor
RawCells ==
    { S \in SUBSET (WindowX \X WindowY) :
        Cardinality(S) >= 1 /\ Cardinality(S) <= MaxRaw }

InitAnalyze ==
    /\ \E cells \in RawCells : \E head \in cells :
          /\ given = [cells |-> cells, head |-> head]
          /\ creature = NewCreature(<<0, 0>>, cells, head, 0)
          /\ an = AnalyzeEntry(head)
    /\ op = "__init__"
    /\ error = "none"
    /\ NoZoo

\* one pass of "while to_visit"
Visit ==
    /\ an.pc = "loop"
    /\ \E cell \in an.to_visit :
          LET st == AnalyzeVisit(creature.cells, an, cell)
          IN  IF st.pc = "loop"
              THEN /\ an' = st
                   /\ UNCHANGED <<creature, error>>
              ELSE /\ an' = [st EXCEPT !.pc = "raised"]
                   /\ creature' = [creature EXCEPT !.mouths = st.mouths]
                   /\ error' = Raised(st.pc)
    /\ UNCHANGED <<given, op, zooVars>>

\* the loop has ended: connectivity check, movement, normalisation
Finish ==
    /\ an.pc = "loop"
    /\ an.to_visit = {}
    /\ LET r == AnalyzeFinish(creature, an)
       IN  /\ creature' = r.c
           /\ error' = r.raised
           /\ an' = [an EXCEPT !.pc = IF r.raised = "none" THEN "done" ELSE "raised"]
    /\ UNCHANGED <<given, op, zooVars>>

\* next(creature.movement) on the analysed creature
Advance ==
    /\ an.pc = "done"
    /\ creature' = [creature EXCEPT !.cursor = NextCursor(creature)]
    /\ UNCHANGED <<an, given, op, error, zooVars>>

NextAnalyze == Visit \/ Finish \/ Advance

SpecAnalyze == InitAnalyze /\ [][NextAnalyze]_vars

----------------------------------------------------------------------------
(* MultiSet: items maps a value to its count *)

\* self.items.get(value, 0)
Get(items, value) == IF value \in DOMAIN items THEN items[value] ELSE 0

\* MultiSet.__contains__
MultiSetContains(items, value) == Get(items, value) > 0

\* MultiSet.add
MultiSetAdd(items, value) ==
    [x \in DOMAIN items \cup {value} |->
        IF x = value THEN Get(items, value) + 1 ELSE items[x]]

\* MultiSet.remove
MultiSetRemoveKeepZero(items, value) ==
    [x \in DOMAIN items \cup {value} |->
        IF x = value THEN Get(items, value) - 1 ELSE items[x]]

MultiSetRemove(items, value) ==
    IF Get(items, value) - 1 = 0
    THEN [x \in DOMAIN items \ {value} |-> items[x]]
    ELSE [x \in DOMAIN items \cup {value} |->
            IF x = value THEN Get(items, value) - 1 ELSE items[x]]

\* MultiSet.__len__
RECURSIVE SumCounts(_, _)
SumCounts(items, D) ==
    IF D = {} THEN 0
    ELSE LET x == CHOOSE x \in D : TRUE
         IN  items[x] + SumCounts(items, D \ {x})

MultiSetLen(items) == SumCounts(items, DOMAIN items)

----------------------------------------------------------------------------
(* Zoo.step: the body of "for creature in self.creatures", for one creature *)

\* an outcome set followed by a further operation on the creatures of the
\* outcomes that raised nothing
Bind(outs, F(_)) ==
    UNION { IF o.raised # "none" THEN { [c |-> o.c, raised |-> o.raised] }
            ELSE { [c |-> n.c, raised |-> n.raised] : n \in F(o.c) }
            : o \in outs }

\* the values randint(0,1) may take in mutate: a new creature of MaxBorn
\* cells is not grown further
Coins(c) ==
    IF Cardinality(c.cells) < MaxBorn THEN {0, 1}
    ELSE IF Removable(c) # {} THEN {1} ELSE {}

\* whether "random() < self.mutation_probability" may hold, and may fail;
\* random() is in [0, 1) and the probability is given in percent
MayMutate(c) == conf.mutation_probability > 0 /\ Coins(c) # {}

MayNotMutate(c) ==
    conf.mutation_probability < 100 \/ Coins(c) = {}

\* the new creature of a mouth that found a key: constructed from a copy of
\* the parent's cells and the parent's head, mutated or not, and turned
NewBorn(parent, mouth_position) ==
    LET made == Creature(mouth_position, parent.cells, parent.head,
                         conf.offspring_energy)
        mutated ==
            UNION { IF o.raised # "none" THEN { [c |-> o.c, raised |-> o.raised] }
                    ELSE (IF MayNotMutate(o.c)
                          THEN { [c |-> o.c, raised |-> "none"] } ELSE {})
                         \cup
                         (IF MayMutate(o.c)
                          THEN UNION { { [c |-> m.c, raised |-> m.raised] :
                                         m \in mutate(o.c, coin) }
                                       : coin \in Coins(o.c) }
                          ELSE {})
                    : o \in made }
    IN  Bind(mutated, rotate_left) \cup Bind(mutated, rotate_right)

\* "feed": one unit of the food at the mouth is eaten
FeedKeepsFood(ps, mouth_position) ==
    [ps EXCEPT !.c.energy = @ + conf.energy_gain]

Feed(ps, mouth_position) ==
    [ps EXCEPT !.food = MultiSetRemove(@, mouth_position),
               !.c.energy = @ + conf.energy_gain]

\* one pass of "for mouth in creature.mouths" on the pass state ps =
\* [c, food, keys, survivors, next_id, born, raised]
MouthEither(ps, mouth) ==
    LET mouth_position == << mouth[1] + ps.c.position[1],
                             mouth[2] + ps.c.position[2] >>
        fed == IF MultiSetContains(ps.food, mouth_position)
               THEN Feed(ps, mouth_position)
               ELSE ps
    IN  IF ~MultiSetContains(ps.food, mouth_position)
           /\ MultiSetContains(fed.keys, mouth_position)
        THEN { IF b.raised # "none"
               THEN [fed EXCEPT !.keys = MultiSetRemove(@, mouth_position),
                                !.raised = b.raised]
               ELSE [fed EXCEPT !.keys = MultiSetRemove(@, mouth_position),
                                !.survivors = (fed.next_id :> b.c) @@ @,
                                !.born = @ \cup {fed.next_id},
                                !.next_id = @ + 1]
               : b \in NewBorn(fed.c, mouth_position) }
        ELSE { fed }

Mouth(ps, mouth) ==
    LET mouth_position == << mouth[1] + ps.c.position[1],
                             mouth[2] + ps.c.position[2] >>
        fed == IF MultiSetContains(ps.food, mouth_position)
               THEN Feed(ps, mouth_position)
               ELSE ps
    IN  IF MultiSetContains(fed.keys, mouth_position)
        THEN { IF b.raised # "none"
               THEN [fed EXCEPT !.keys = MultiSetRemove(@, mouth_position),
                                !.raised = b.raised]
               ELSE [fed EXCEPT !.keys = MultiSetRemove(@, mouth_position),
                                !.survivors = (fed.next_id :> b.c) @@ @,
                                !.born = @ \cup {fed.next_id},
                                !.next_id = @ + 1]
               : b \in NewBorn(fed.c, mouth_position) }
        ELSE { fed }

\* the loop over the mouths, in every order the set may be iterated
RECURSIVE Mouths(_, _)
Mouths(ps, mouths) ==
    IF ps.raised # "none" \/ mouths = {} THEN {ps}
    ELSE UNION { UNION { Mouths(q, mouths \ {mouth}) : q \in Mouth(ps, mouth) }
                 : mouth \in mouths }

\* "colide or wrap horizontally"
HorizontalWholeWidth(c) ==
    IF c.position[1] < 0
    THEN IF conf.wrap_horizontal
         THEN { [c |-> [c EXCEPT !.position = <<@[1] + conf.size[1] + 1, @[2]>>],
                 raised |-> "none"] }
         ELSE Bind({ [c |-> [c EXCEPT !.position = <<0, @[2]>>], raised |-> "none"] },
                   mirror_horizontal)
    ELSE IF c.position[1] > conf.size[1]
    THEN IF conf.wrap_horizontal
         THEN { [c |-> [c EXCEPT !.position = <<@[1] - conf.size[1] - 1, @[2]>>],
                 raised |-> "none"] }
         ELSE Bind({ [c |-> [c EXCEPT !.position = <<conf.size[1], @[2]>>],
                      raised |-> "none"] },
                   mirror_horizontal)
    ELSE { [c |-> c, raised |-> "none"] }

Horizontal(c) ==
    IF c.position[1] < 0
    THEN IF conf.wrap_horizontal
         THEN { [c |-> [c EXCEPT !.position = <<@[1] + conf.size[1], @[2]>>],
                 raised |-> "none"] }
         ELSE Bind({ [c |-> [c EXCEPT !.position = <<0, @[2]>>], raised |-> "none"] },
                   mirror_horizontal)
    ELSE IF c.position[1] > conf.size[1]
    THEN IF conf.wrap_horizontal
         THEN { [c |-> [c EXCEPT !.position = <<@[1] - conf.size[1], @[2]>>],
                 raised |-> "none"] }
         ELSE Bind({ [c |-> [c EXCEPT !.position = <<conf.size[1], @[2]>>],
                      raised |-> "none"] },
                   mirror_horizontal)
    ELSE { [c |-> c, raised |-> "none"] }

\* "colide or wrap vertically"
VerticalUnclamped(c) ==
    IF c.position[2] < 0
    THEN IF conf.wrap_vertical
         THEN { [c |-> [c EXCEPT !.position = <<@[1], @[2] + conf.size[2]>>],
                 raised |-> "none"] }
         ELSE Bind({ [c |-> c, raised |-> "none"] },
                   mirror_vertical)
    ELSE IF c.position[2] > conf.size[2]
    THEN IF conf.wrap_vertical
         THEN { [c |-> [c EXCEPT !.position = <<@[1], @[2] - conf.size[2]>>],
                 raised |-> "none"] }
         ELSE Bind({ [c |-> c, raised |-> "none"] },
                   mirror_vertical)
    ELSE { [c |-> c, raised |-> "none"] }

Vertical(c) ==
    IF c.position[2] < 0
    THEN IF conf.wrap_vertical
         THEN { [c |-> [c EXCEPT !.position = <<@[1], @[2] + conf.size[2]>>],
                 raised |-> "none"] }
         ELSE Bind({ [c |-> [c EXCEPT !.position = <<@[1], 0>>], raised |-> "none"] },
                   mirror_vertical)
    ELSE IF c.position[2] > conf.size[2]
    THEN IF conf.wrap_vertical
         THEN { [c |-> [c EXCEPT !.position = <<@[1], @[2] - conf.size[2]>>],
                 raised |-> "none"] }
         ELSE Bind({ [c |-> [c EXCEPT !.position = <<@[1], conf.size[2]>>],
                      raised |-> "none"] },
                   mirror_vertical)
    ELSE { [c |-> c, raised |-> "none"] }

\* "move": the next vector of the cycle is added to the position, then the
\* two axes are handled one after the other
Move(c) ==
    LET movement == NextVector(c)
        moved == [c EXCEPT !.cursor = NextCursor(c),
                           !.position = <<@[1] + movement[1], @[2] + movement[2]>>]
    IN  Bind(Horizontal(moved), Vertical)

\* "creature dies": the test
DiesAtZero(c) == c.energy <= 0

Dies(c) == c.energy < 0

\* the particle a dying creature leaves for one of its cells
IsKeyCell(c, cell) == cell = c.head

RECURSIVE Deposit(_, _, _, _)
Deposit(c, cells, wantKey, items) ==
    IF cells = {} THEN items
    ELSE LET cell == CHOOSE x \in cells : TRUE
             at == <<c.position[1] + cell[1], c.position[2] + cell[2]>>
         IN  Deposit(c, cells \ {cell}, wantKey,
                     IF IsKeyCell(c, cell) = wantKey
                     THEN MultiSetAdd(items, at) ELSE items)

\* the death check at the end of the pass
DeathCheckSweep(ps, id) ==
    LET checked == IF Dies(ps.c)
                   THEN [ps EXCEPT !.keys = Deposit(ps.c, ps.c.cells, TRUE, @),
                                   !.food = Deposit(ps.c, ps.c.cells, FALSE, @)]
                   ELSE [ps EXCEPT !.survivors = (id :> ps.c) @@ @]
        alive == { i \in DOMAIN checked.survivors : ~Dies(checked.survivors[i]) }
    IN  [checked EXCEPT !.survivors = [i \in alive |-> checked.survivors[i]]]

DeathCheck(ps, id) ==
    IF Dies(ps.c)
    THEN [ps EXCEPT !.keys = Deposit(ps.c, ps.c.cells, TRUE, @),
                    !.food = Deposit(ps.c, ps.c.cells, FALSE, @)]
    ELSE [ps EXCEPT !.survivors = (id :> ps.c) @@ @]

\* the whole pass of the loop for creature id, on the state z of the step
\* = [creatures, survivors, food, keys, next_id, log, raised]
Pass(z, id) ==
    LET c0 == z.creatures[id]
        entry == [c |-> [c0 EXCEPT !.energy = @ - conf.energy_loss, !.age = @ + 1],
                  food |-> z.food, keys |-> z.keys, survivors |-> z.survivors,
                  next_id |-> z.next_id, born |-> {}, raised |-> "none"]
        Done(fed, out) ==
            [creatures |-> [z.creatures EXCEPT ![id] = out.c],
             survivors |-> out.survivors,
             food |-> out.food, keys |-> out.keys,
             next_id |-> out.next_id,
             log |-> (id :> [before |-> c0, after |-> out.c,
                             food_in |-> z.food, keys_in |-> z.keys,
                             food_fed |-> fed.food, keys_fed |-> fed.keys,
                             food_out |-> out.food, keys_out |-> out.keys,
                             born |-> out.born]) @@ z.log,
             raised |-> out.raised]
    IN  UNION {
          IF fed.raised # "none" THEN { Done(fed, fed) }
          ELSE { IF m.raised # "none"
                 THEN Done(fed, [fed EXCEPT !.c = m.c, !.raised = m.raised])
                 ELSE Done(fed, DeathCheck([fed EXCEPT !.c = m.c], id))
                 : m \in Move(fed.c) }
          : fed \in Mouths(entry, c0.mouths) }

\* "for creature in self.creatures", in every order the set may be iterated
RECURSIVE Loop(_, _)
Loop(z, todo) ==
    IF z.raised # "none" \/ todo = {} THEN {z}
    ELSE UNION { UNION { Loop(q, todo \ {id}) : q \in Pass(z, id) } : id \in todo }

----------------------------------------------------------------------------
(* SpecZoo: Zoo(descendants, size, ...) and its step(), the loop taken in   *)
(* every order the set of creatures may be iterated                         *)

\* the number of step() calls followed
MaxTicks == 2

\* ancestor(position, energy): the default body, turned by randint(1,4), its
\* movement advanced randint(0,2) times
Advanced(c, times) ==
    [c EXCEPT !.cursor = (c.cursor + times) % Len(c.movement)]

ancestor(position, energy) ==
    LET made == Creature(position, AncestorCells, <<0, 0>>, energy)
        turned == Bind(made, rotate_right) \cup Bind(made, rotate_left)
                  \cup Bind(made, mirror_vertical)
                  \cup { [c |-> o.c, raised |-> o.raised] : o \in made }
    IN  { [c |-> Advanced(o.c, times), raised |-> o.raised] :
          o \in { t \in turned : t.raised = "none" }, times \in 0..2 }

\* the configuration the others are varied from: a 2 x 2 world without
\* wrapping, and the mutation probability in percent
DefaultConf ==
    [size |-> <<1, 1>>,
     offspring_energy |-> 1,
     energy_loss |-> 1,
     energy_gain |-> 2,
     wrap_horizontal |-> FALSE,
     wrap_vertical |-> FALSE,
     mutation_probability |-> 50]

\* the configurations: every setting of the wrap flags, a negative
\* offspring_energy, no mutation, and a wider world that wraps horizontally
Confs ==
    { [DefaultConf EXCEPT !.wrap_horizontal = h, !.wrap_vertical = v] :
      h \in BOOLEAN, v \in BOOLEAN }
    \cup { [DefaultConf EXCEPT !.offspring_energy = -1],
           [DefaultConf EXCEPT !.mutation_probability = 0],
           [DefaultConf EXCEPT !.size = <<2, 1>>, !.wrap_horizontal = TRUE] }

\* the places randint(0,size[0]), randint(0,size[1]) may give
Places(size) == (0..size[1]) \X (0..size[2])

\* the energies the first ancestors are given
StartEnergies == {0, 1}

\* the head alone, and a head with one leg, about to starve
Starving(position, cells) ==
    { o.c : o \in Creature(position, cells, <<0, 0>>, -1) }

\* the ancestors at (0,0) whose movement was advanced at most once
Ancestors ==
    { a \in UNION { { o.c : o \in ancestor(<<0, 0>>, energy) } :
                    energy \in StartEnergies } : a.cursor <= 1 }

\* a creature the caller constructed with a head other than (0,0): a corner
\* of three cells with the corner cell as its head, about to starve or not
OffCentre ==
    { o.c : o \in UNION { Creature(<<1, 0>>, {<<0, 0>>, <<1, 0>>, <<1, 1>>},
                                   <<1, 0>>, energy) : energy \in {-1, 1} } }

\* the ancestor's body constructed with its left arm's foot as the head
OffCentreAncestor ==
    { o.c : o \in Creature(<<0, 0>>, AncestorCells, <<-1, 0>>, 1) }

\* the populations a Zoo is built with: one ancestor, one starving creature,
\* or one creature with an off-centre head; two creatures are followed in
\* the default configuration only: an upright ancestor with a starving
\* creature at its mouth, or two upright ancestors made alike
StartPopulations(c) ==
    LET upright == { a \in Ancestors : a.cells = AncestorCells }
        starving == Starving(<<0, 1>>, {<<0, 0>>})
                    \cup Starving(<<1, 1>>, {<<0, 0>>, <<-1, 0>>})
    IN  { <<a>> : a \in Ancestors }
        \cup { <<s>> : s \in starving }
        \cup { <<o>> : o \in OffCentre \cup OffCentreAncestor }
        \cup (IF c = DefaultConf
              THEN { <<a, s>> : a \in upright, s \in starving }
                   \cup { <<a, a>> : a \in upright }
              ELSE {})

\* the particles Zoo.__init__ places: at most one unit in all
StartParticles(size) ==
    { [food |-> F, keys |-> K] :
      F \in { S \in SUBSET Places(size) : Cardinality(S) <= 1 },
      K \in { S \in SUBSET Places(size) : Cardinality(S) <= 1 } }

\* MultiSet() filled with one unit at each place of S
Units(S) == [x \in S |-> 1]

InitZoo ==
    /\ creature = NewCreature(<<0, 0>>, {<<0, 0>>}, <<0, 0>>, 0)
    /\ an = AnalyzeEntry(<<0, 0>>)
    /\ given = [cells |-> {<<0, 0>>}, head |-> <<0, 0>>]
    /\ op = "Zoo"
    /\ error = "none"
    /\ conf \in Confs
    /\ creatures \in StartPopulations(conf)
    /\ \E sp \in StartParticles(conf.size) :
          /\ Cardinality(sp.food \cup sp.keys) <= 1
          /\ sp.food \cap sp.keys = {}
          /\ food = Units(sp.food)
          /\ keys = Units(sp.keys)
    /\ last_id = Len(creatures)
    /\ tick = [n |-> 0, food0 |-> food, keys0 |-> keys, log |-> << >>]

\* step(): "survivors = set()", the loop, and "self.creatures = survivors",
\* which is not reached when a pass raises
Step ==
    /\ error = "none"
    /\ tick.n < MaxTicks
    /\ \E z \in Loop([creatures |-> creatures, survivors |-> << >>,
                      food |-> food, keys |-> keys, next_id |-> last_id + 1,
                      log |-> << >>, raised |-> "none"],
                     DOMAIN creatures) :
          /\ creatures' = IF z.raised = "none" THEN z.survivors ELSE z.creatures
          /\ food' = z.food
          /\ keys' = z.keys
          /\ last_id' = z.next_id - 1
          /\ error' = z.raised
          /\ tick' = [n |-> tick.n + 1, food0 |-> food, keys0 |-> keys,
                      log |-> z.log]
    /\ op' = "step"
    /\ UNCHANGED <<creature, an, given, conf>>

NextZoo == Step

SpecZoo == InitZoo /\ [][NextZoo]_vars

----------------------------------------------------------------------------
(* What the claims speak of, defined without the analyser *)

\* the cells of S next to a cell of R, added to R
Grow(S, R) == R \cup { c \in S : neighbours(c) \cap R # {} }

RECURSIVE Closure(_, _)
Closure(S, R) == IF Grow(S, R) = R THEN R ELSE Closure(S, Grow(S, R))

\* the cells of S connected to head under 4-adjacency
Reachable(S, head) == Closure(S, {head} \cap S)

\* the number of edges of the adjacency graph induced by S
EdgeCount(S) ==
    Cardinality({ e \in S \X S : e[2] \in neighbours(e[1]) }) \div 2

\* S is connected to head and acyclic
IsTree(S, head) ==
    /\ head \in S
    /\ Reachable(S, head) = S
    /\ EdgeCount(S) = Cardinality(S) - 1

RECURSIVE SumVectors(_)
SumVectors(m) ==
    IF m = << >> THEN <<0, 0>>
    ELSE LET r == SumVectors(Tail(m))
         IN  <<m[1][1] + r[1], m[1][2] + r[2]>>

----------------------------------------------------------------------------
(* Claims on SpecAnalyze *)

\* C8: after an analysis with net leaf bias (h, v) the movement sequence has
\* period 1 + max(|h|, |v|) (its only null vector is the first one, and the
\* cursor wraps within it), every vector has components in {-1, 0, 1}, and
\* the vectors of one period sum to (h, v).
C8_MovementCycle ==
    an.pc = "done" =>
        LET m == creature.movement
            h == an.horizontal
            v == an.vertical
        IN  /\ Len(m) = 1 + Max(abs(h), abs(v))
            /\ creature.cursor \in 0..(Len(m) - 1)
            /\ m[1] = <<0, 0>>
            /\ \A i \in 2..Len(m) : m[i] # <<0, 0>>
            /\ \A i \in 1..Len(m) : m[i][1] \in {-1, 0, 1} /\ m[i][2] \in {-1, 0, 1}
            /\ SumVectors(m) = <<h, v>>

\* an analysed structure whose bias has two non-zero, unequal components, with
\* the cursor inside the cycle
C8_Witness ==
    /\ an.pc = "done"
    /\ an.horizontal # 0
    /\ abs(an.vertical) > abs(an.horizontal)
    /\ creature.cursor = 2

\* C9: analyze succeeds exactly on the cell sets that are connected to the
\* head and acyclic; it raises the cycle error only when the part reachable
\* from the head has a cycle, and the unconnected error only when that part
\* is acyclic and some cell lies outside it, whatever the order of the visits.
C9_AnalyzeOutcome ==
    LET R == Reachable(given.cells, given.head)
    IN  /\ an.pc = "done" => error = "none" /\ IsTree(given.cells, given.head)
        /\ an.pc = "raised" =>
              /\ error \in {"cycle", "unconnected"}
              /\ ~IsTree(given.cells, given.head)
        /\ error = "cycle" => EdgeCount(R) >= Cardinality(R)
        /\ error = "unconnected" =>
              /\ EdgeCount(R) = Cardinality(R) - 1
              /\ R # given.cells

\* the unconnected error on a structure whose unreachable part holds a cycle
C9_Witness ==
    /\ an.pc = "raised"
    /\ error = "unconnected"
    /\ LET U == given.cells \ Reachable(given.cells, given.head)
       IN  EdgeCount(U) >= Cardinality(U)

\* C10: after construction from a valid cell set with any head in it, head
\* is (0,0), (0,0) is a cell, and every cell is relative to the head.
C10_HeadRebased ==
    an.pc = "done" =>
        /\ creature.head = <<0, 0>>
        /\ <<0, 0>> \in creature.cells
        /\ creature.cells =
              { <<c[1] - given.head[1], c[2] - given.head[2]>> : c \in given.cells }

----------------------------------------------------------------------------
(* Claims on SpecZoo: tick.log keeps, for every creature the last step()    *)
(* processed, the creature before and after its pass and the particles      *)
(* before the pass, after its mouths and after its death check              *)

\* the last step() returned
Stepped == op = "step" /\ error = "none"

\* the absolute place of an offset of creature c
Place(c, offset) == <<c.position[1] + offset[1], c.position[2] + offset[2]>>

\* the sum of f over D
RECURSIVE Total(_, _)
Total(f, D) ==
    IF D = {} THEN 0
    ELSE LET x == CHOOSE x \in D : TRUE
         IN  f[x] + Total(f, D \ {x})

\* the places two multisets speak of
Support(a, b) == DOMAIN a \cup DOMAIN b

\* C2: a creature of n cells that ends its pass with energy < 0 is not in the
\* new live set, and its death adds exactly n units: one key at its final
\* position + head, and one food unit at final position + c for each of the
\* n-1 cells c other than the head; a head-only creature that entered the
\* tick with energy -1 leaves one key at its position and the food as it was.
C2_DeathPayout ==
    Stepped =>
        \A id \in DOMAIN tick.log :
            LET e == tick.log[id]
                c == e.after
                body == c.cells \ {c.head}
                places == Support(e.keys_out, e.keys_fed)
                          \cup Support(e.food_out, e.food_fed)
                          \cup { Place(c, x) : x \in c.cells \cup {c.head} }
            IN  c.energy < 0 =>
                  /\ id \notin DOMAIN creatures
                  /\ Cardinality(body) = Cardinality(c.cells) - 1
                  /\ \A p \in places :
                        /\ Get(e.keys_out, p) = Get(e.keys_fed, p)
                              + (IF p = Place(c, c.head) THEN 1 ELSE 0)
                        /\ Get(e.food_out, p) = Get(e.food_fed, p)
                              + Cardinality({ x \in body : Place(c, x) = p })
                  /\ (Cardinality(c.cells) = 1 /\ e.before.energy = -1) =>
                        /\ Get(e.keys_out, c.position) = Get(e.keys_fed, c.position) + 1
                        /\ e.food_out = e.food_fed

\* C3: across one step() the food total changes by the sum over the dying
\* creatures of |cells| - 1, minus the number of feedings, and the key total
\* by the number of deaths minus the number of newborns.
C3_ParticleAccounting ==
    Stepped =>
        LET log == tick.log
            ids == DOMAIN log
            dead == ids \ DOMAIN creatures
            newborns == DOMAIN creatures \ ids
            left == [id \in ids |-> Cardinality(log[id].after.cells) - 1]
            feedings == [id \in ids |->
                            (log[id].after.energy - log[id].before.energy
                             + conf.energy_loss) \div conf.energy_gain]
        IN  /\ MultiSetLen(food) - MultiSetLen(tick.food0)
                 = Total(left, dead) - Total(feedings, ids)
            /\ MultiSetLen(keys) - MultiSetLen(tick.keys0)
                 = Cardinality(dead) - Cardinality(newborns)

\* the mouths of the logged creature whose place held food when its pass began
FedMouths(e) ==
    { m \in e.before.mouths : Get(e.food_in, Place(e.before, m)) > 0 }

\* C4 as claimed: each mouth whose place holds food removes exactly one unit
\* there and raises the energy by energy_gain; a creature with exactly one
\* such mouth, food count 1 there and no key there, ends the tick with food
\* count 0 at that place and energy = previous + energy_gain - energy_loss.
C4_FeedingEndsEmpty ==
    Stepped =>
        \A id \in DOMAIN tick.log :
            LET e == tick.log[id]
                c == e.before
            IN  /\ \A m \in c.mouths :
                      Get(e.food_fed, Place(c, m)) =
                          Get(e.food_in, Place(c, m))
                          - (IF m \in FedMouths(e) THEN 1 ELSE 0)
                /\ MultiSetLen(e.food_in) - MultiSetLen(e.food_fed)
                      = Cardinality(FedMouths(e))
                /\ e.after.energy = c.energy - conf.energy_loss
                      + conf.energy_gain * Cardinality(FedMouths(e))
                /\ \A m \in c.mouths :
                      (/\ FedMouths(e) = {m}
                       /\ Get(e.food_in, Place(c, m)) = 1
                       /\ Get(e.keys_in, Place(c, m)) = 0) =>
                          /\ Get(food, Place(c, m)) = 0
                          /\ e.after.energy =
                                c.energy + conf.energy_gain - conf.energy_loss

\* C4 amended: as C4, but the food count at the place of the one fed mouth is
\* 0 when the creature's mouths have been processed; at the end of the tick
\* it is whatever the deaths of the tick have deposited there since.
C4_Feeding ==
    Stepped =>
        \A id \in DOMAIN tick.log :
            LET e == tick.log[id]
                c == e.before
            IN  /\ \A m \in c.mouths :
                      Get(e.food_fed, Place(c, m)) =
                          Get(e.food_in, Place(c, m))
                          - (IF m \in FedMouths(e) THEN 1 ELSE 0)
                /\ MultiSetLen(e.food_in) - MultiSetLen(e.food_fed)
                      = Cardinality(FedMouths(e))
                /\ e.after.energy = c.energy - conf.energy_loss
                      + conf.energy_gain * Cardinality(FedMouths(e))
                /\ \A m \in c.mouths :
                      (/\ FedMouths(e) = {m}
                       /\ Get(e.food_in, Place(c, m)) = 1
                       /\ Get(e.keys_in, Place(c, m)) = 0) =>
                          /\ Get(e.food_fed, Place(c, m)) = 0
                          /\ e.after.energy =
                                c.energy + conf.energy_gain - conf.energy_loss

\* a creature fed by its one mouth on the only unit there, and a death later
\* in the same tick that left food at that place
C4_Witness ==
    /\ Stepped
    /\ \E id \in DOMAIN tick.log :
          LET e == tick.log[id]
          IN  \E m \in e.before.mouths :
                  /\ FedMouths(e) = {m}
                  /\ Get(e.food_in, Place(e.before, m)) = 1
                  /\ Get(e.keys_in, Place(e.before, m)) = 0
                  /\ Get(food, Place(e.before, m)) = 1

\* the creatures of the live set the last step() did not process
Newborns == DOMAIN creatures \ DOMAIN tick.log

\* C5: every creature spawned during a step() is in the live set after the
\* step with age 0, energy offspring_energy, its movement not advanced, and
\* its position the place of a mouth of its parent that held a key, of which
\* one unit was consumed; this also when offspring_energy < 0 and when the
\* parent dies in the same tick.
C5_Newborn ==
    Stepped =>
        /\ Newborns = UNION { tick.log[id].born : id \in DOMAIN tick.log }
        /\ \A id \in DOMAIN tick.log :
              LET e == tick.log[id]
              IN  /\ MultiSetLen(e.keys_in) - MultiSetLen(e.keys_fed)
                        = Cardinality(e.born)
                  /\ \A b \in e.born :
                        /\ b \in DOMAIN creatures
                        /\ creatures[b].age = 0
                        /\ creatures[b].energy = conf.offspring_energy
                        /\ creatures[b].cursor = 0
                        /\ \E m \in e.before.mouths :
                              /\ creatures[b].position = Place(e.before, m)
                              /\ Get(e.keys_fed, Place(e.before, m))
                                    = Get(e.keys_in, Place(e.before, m)) - 1

\* a newborn of negative energy whose parent died in the tick of the birth
C5_Witness ==
    /\ Stepped
    /\ conf.offspring_energy < 0
    /\ \E id \in DOMAIN tick.log :
          /\ id \notin DOMAIN creatures
          /\ \E b \in tick.log[id].born : creatures[b].energy < 0

Flip(cells, fx, fy) ==
    { <<IF fx THEN -c[1] ELSE c[1], IF fy THEN -c[2] ELSE c[2]>> : c \in cells }

\* a coordinate held within 0..size
Clamp(x, size) == IF x < 0 THEN 0 ELSE IF x > size THEN size ELSE x

\* C7: on an axis without wrapping the coordinate after the movement is
\* clamped to 0..size, and the cells are mirrored across that axis exactly
\* when the coordinate was outside; the two axes independently of each other.
C7_Boundary ==
    Stepped =>
        \A id \in DOMAIN tick.log :
            LET b == tick.log[id].before
                a == tick.log[id].after
                v == b.movement[b.cursor + 1]
                x == b.position[1] + v[1]
                y == b.position[2] + v[2]
                outX == x < 0 \/ x > conf.size[1]
                outY == y < 0 \/ y > conf.size[2]
            IN  /\ ~conf.wrap_horizontal => a.position[1] = Clamp(x, conf.size[1])
                /\ ~conf.wrap_vertical => a.position[2] = Clamp(y, conf.size[2])
                /\ a.cells = Flip(b.cells, ~conf.wrap_horizontal /\ outX,
                                           ~conf.wrap_vertical /\ outY)

----------------------------------------------------------------------------
(* SpecCreature: one creature with head (0,0) under its public operations   *)

\* the bodies the creature starts from: the head alone and the ancestor
StartBodies == { {<<0, 0>>}, AncestorCells }

InitCreature ==
    /\ \E cells \in StartBodies :
          \E o \in Creature(<<0, 0>>, cells, <<0, 0>>, 0) :
              /\ o.raised = "none"
              /\ creature = o.c
              /\ an = o.an
              /\ given = [cells |-> cells, head |-> <<0, 0>>]
    /\ op = "__init__"
    /\ error = "none"
    /\ NoZoo

\* the caller sees outcome o of operation name
Returns(name, o) ==
    /\ creature' = o.c
    /\ an' = o.an
    /\ error' = o.raised
    /\ op' = name
    /\ UNCHANGED <<given, zooVars>>

\* a body of MaxCells cells is not grown further
MayGrow(c) == Cardinality(c.cells) < MaxCells

Mutate ==
    /\ error = "none"
    /\ \E coin \in {0, 1} :
          /\ (coin = 0 \/ Removable(creature) = {}) => MayGrow(creature)
          /\ \E o \in mutate(creature, coin) : Returns("mutate", o)

AddRandomCell ==
    /\ error = "none"
    /\ MayGrow(creature)
    /\ \E o \in add_random_cell(creature) : Returns("add_random_cell", o)

RemoveRandomCell ==
    /\ error = "none"
    /\ \E o \in remove_random_cell(creature) :
          Returns(IF o.ret THEN "remove_random_cell" ELSE "remove_random_cell failed", o)

MirrorHorizontal ==
    /\ error = "none"
    /\ \E o \in mirror_horizontal(creature) : Returns("mirror_horizontal", o)

MirrorVertical ==
    /\ error = "none"
    /\ \E o \in mirror_vertical(creature) : Returns("mirror_vertical", o)

RotateRight ==
    /\ error = "none"
    /\ \E o \in rotate_right(creature) : Returns("rotate_right", o)

RotateLeft ==
    /\ error = "none"
    /\ \E o \in rotate_left(creature) : Returns("rotate_left", o)

NextCreature ==
    \/ Mutate
    \/ AddRandomCell
    \/ RemoveRandomCell
    \/ MirrorHorizontal
    \/ MirrorVertical
    \/ RotateRight
    \/ RotateLeft

SpecCreature == InitCreature /\ [][NextCreature]_vars

\* C1: after any sequence of mutate, add_random_cell, remove_random_cell,
\* mirror_horizontal, mirror_vertical, rotate_left and rotate_right on a
\* creature that started as a tree with head (0,0), cells is non-empty,
\* contains the head, is connected and acyclic, and head is (0,0).
C1_TreeInvariant ==
    /\ creature.cells # {}
    /\ creature.head = <<0, 0>>
    /\ creature.head \in creature.cells
    /\ Reachable(creature.cells, creature.head) = creature.cells
    /\ EdgeCount(creature.cells) = Cardinality(creature.cells) - 1

\* a grown body, reached by a mutation, that is no start body or image of one
C1_Witness ==
    /\ op = "mutate"
    /\ Cardinality(creature.cells) = 4
    /\ <<0, 2>> \in creature.cells
    /\ <<-1, 0>> \in creature.cells

\* C11: on a valid organism, mirror_horizontal twice and mirror_vertical
\* twice give back the cell set, and so do rotate_left then rotate_right and
\* rotate_right then rotate_left: after a step of the first call, the second
\* call returns the cells the step began with.
C11_RoundTrips ==
    [][ error' = "none" =>
          /\ op' = "mirror_horizontal" =>
                \A o \in mirror_horizontal(creature') :
                    o.raised = "none" /\ o.c.cells = creature.cells
          /\ op' = "mirror_vertical" =>
                \A o \in mirror_vertical(creature') :
                    o.raised = "none" /\ o.c.cells = creature.cells
          /\ op' = "rotate_left" =>
                \A o \in rotate_right(creature') :
                    o.raised = "none" /\ o.c.cells = creature.cells
          /\ op' = "rotate_right" =>
                \A o \in rotate_left(creature') :
                    o.raised = "none" /\ o.c.cells = creature.cells ]_vars

\* a body just turned left that neither mirror nor half turn maps to itself
C11_Witness ==
    /\ op = "rotate_left"
    /\ error = "none"
    /\ Cardinality(creature.cells) >= 3
    /\ Flip(creature.cells, TRUE, FALSE) # creature.cells
    /\ Flip(creature.cells, FALSE, TRUE) # creature.cells
    /\ Flip(creature.cells, TRUE, TRUE) # creature.cells

\* the empty cells with at least 3 of their 4 neighbours in cells
EmptyWithThree(cells) ==
    { p \in UNION { neighbours(x) : x \in cells } \ cells :
        Cardinality(neighbours(p) \cap cells) >= 3 }

\* C12: one call of mutate on a valid organism raises nothing and changes
\* the cells by exactly one cell: an added empty cell that had exactly one
\* living neighbour, or a removed leaf other than the head; the head stays,
\* and mouths and movement are those of an analysis of the new cells.
C12_OneEdit ==
    [][ op' = "mutate" =>
          LET before == creature.cells
              after == creature'.cells
              added == after \ before
              removed == before \ after
          IN  /\ error' = "none"
              /\ Cardinality(added) + Cardinality(removed) = 1
              /\ \A x \in added : Cardinality(neighbours(x) \cap before) = 1
              /\ \A x \in removed :
                    x # creature.head /\ Cardinality(neighbours(x) \cap before) = 1
              /\ creature'.head = creature.head
              /\ creature'.head \in after
              /\ creature'.mouths = EmptyWithThree(after)
              /\ creature'.cursor = 0
              /\ \A o \in analyze(creature') :
                    /\ o.raised = "none"
                    /\ o.c.movement = creature'.movement
                    /\ o.c.mouths = creature'.mouths ]_vars

\* the ancestor after a mutation that took one of its arms' ends, and with
\* it the mouth
C12_Witness ==
    /\ op = "mutate"
    /\ error = "none"
    /\ creature.cells = AncestorCells \ {<<1, 1>>}
    /\ creature.mouths = {}

\* C13: add_random_cell on a valid tree-shaped body, the head alone
\* included, adds a cell in every order of its two random scans: no scan of a
\* reachable body ends without a cell to add, the call returns with the body
\* one cell larger, and the "could not add cell" error is never raised.
C13_AddAlwaysAdds ==
    /\ error # "could not add cell"
    /\ error = "none" =>
          /\ \A r \in AddScan(creature.cells, creature.cells, {}) :
                /\ r.added
                /\ r.cell \notin creature.cells
                /\ Cardinality(neighbours(r.cell) \cap creature.cells) = 1
          /\ \A o \in add_random_cell(creature) :
                /\ o.raised = "none"
                /\ o.ret
                /\ Cardinality(o.c.cells) = Cardinality(creature.cells) + 1

\* the head alone after add_random_cell gave it a second cell
C13_Witness ==
    /\ op = "add_random_cell"
    /\ error = "none"
    /\ Cardinality(creature.cells) = 2
    /\ given.cells = {<<0, 0>>}

\* C14: from a population of valid organisms every step() completes and
\* replaces the live set: it raises neither the cycle error, nor the
\* unconnected error, nor the could-not-add-cell error, whatever the wrap
\* flags, the mutation probability and the random choices.
C14_StepCompletes ==
    (\A id \in DOMAIN creatures : creatures[id].head = <<0, 0>>) =>
        /\ error = "none"
        /\ \A id \in DOMAIN creatures :
              /\ id <= last_id
              /\ IsTree(creatures[id].cells, <<0, 0>>)
        /\ op = "step" => DOMAIN creatures \cap DOMAIN tick.log =
                             { id \in DOMAIN tick.log : ~(tick.log[id].after.energy < 0) }

\* a step completed in a wrapping world that left a newborn grown by a
\* mutation beside its parent
C14_Witness ==
    /\ Stepped
    /\ conf.wrap_horizontal
    /\ conf.wrap_vertical
    /\ \E id \in DOMAIN creatures \cap DOMAIN tick.log :
          creatures[id].head = <<0, 0>>
    /\ \E b \in Newborns :
          /\ creatures[b].head = <<0, 0>>
          /\ Cardinality(creatures[b].cells) = Cardinality(AncestorCells) + 1

\* C15: after every analysis mouths is exactly the set of the cells that are
\* not in cells and have at least 3 of their 4 neighbours in cells, in the
\* coordinates of cells; mouths and cells are disjoint; the default ancestor
\* has the mouths {(0,1)}.
C15_MouthsExact ==
    an.pc = "done" =>
        /\ creature.mouths = EmptyWithThree(creature.cells)
        /\ creature.mouths \cap creature.cells = {}
        /\ (given.cells = AncestorCells /\ given.head = <<0, 0>>) =>
              creature.mouths = {<<0, 1>>}

----------------------------------------------------------------------------
(* SpecPlace: Zoo.__init__ placing the first food and keys, one draw of the *)
(* two randint calls at a time; given holds start_food and start_keys, and  *)
(* an the loop the constructor is in and its index i                        *)

\* the largest start_food and start_keys followed
MaxStart == 2

\* the world sizes followed: one place, and two by two places
Sizes == { <<0, 0>>, <<1, 1>> }

InitPlace ==
    /\ creature = NewCreature(<<0, 0>>, {<<0, 0>>}, <<0, 0>>, 0)
    /\ \E size \in Sizes : conf = [DefaultConf EXCEPT !.size = size]
    /\ given \in [start_food : 0..MaxStart, start_keys : 0..MaxStart]
    /\ an = [pc |-> "food", i |-> 0]
    /\ op = "Zoo.__init__"
    /\ error = "none"
    /\ creatures = << >>
    /\ food = << >>
    /\ keys = << >>
    /\ last_id = 0
    /\ tick = [n |-> 0]

\* "if new_food not in self.food"
FoodFree(new_food) == ~MultiSetContains(food, new_food)

\* "if new_key not in self.keys and new_key not in self.food"
KeyFreeAmongKeys(new_key) == ~MultiSetContains(keys, new_key)

KeyFree(new_key) ==
    ~MultiSetContains(keys, new_key) /\ ~MultiSetContains(food, new_key)

\* one pass of "while True" in the food loop: a place is drawn, and taken
\* if it is free; otherwise the loop draws again
DrawFood ==
    /\ an.pc = "food"
    /\ an.i < given.start_food
    /\ \E new_food \in Places(conf.size) :
          IF FoodFree(new_food)
          THEN /\ food' = MultiSetAdd(food, new_food)
               /\ an' = [an EXCEPT !.i = @ + 1]
          ELSE UNCHANGED <<food, an>>
    /\ UNCHANGED <<creature, given, op, error, conf, creatures, keys, last_id, tick>>

\* "for i in xrange(start_food)" has ended
FoodDone ==
    /\ an.pc = "food"
    /\ an.i >= given.start_food
    /\ an' = [pc |-> "keys", i |-> 0]
    /\ UNCHANGED <<creature, given, op, error, zooVars>>

\* one pass of "while True" in the key loop
DrawKey ==
    /\ an.pc = "keys"
    /\ an.i < given.start_keys
    /\ \E new_key \in Places(conf.size) :
          IF KeyFree(new_key)
          THEN /\ keys' = MultiSetAdd(keys, new_key)
               /\ an' = [an EXCEPT !.i = @ + 1]
          ELSE UNCHANGED <<keys, an>>
    /\ UNCHANGED <<creature, given, op, error, conf, creatures, food, last_id, tick>>

\* "for i in xrange(start_keys)" has ended: the constructor returns
KeysDone ==
    /\ an.pc = "keys"
    /\ an.i >= given.start_keys
    /\ an' = [an EXCEPT !.pc = "done"]
    /\ op' = "Zoo"
    /\ UNCHANGED <<creature, given, error, zooVars>>

NextPlace == DrawFood \/ FoodDone \/ DrawKey \/ KeysDone

SpecPlace == InitPlace /\ [][NextPlace]_vars

\* C16: after Zoo construction food holds exactly start_food units and keys
\* exactly start_keys units, every particle lies in [0,width] x [0,height],
\* every occupied place has count exactly 1 in its multiset, and no place
\* holds both a food unit and a key unit.
C16_StartParticles ==
    an.pc = "done" =>
        /\ MultiSetLen(food) = given.start_food
        /\ MultiSetLen(keys) = given.start_keys
        /\ \A p \in DOMAIN food \cup DOMAIN keys :
              /\ p[1] >= 0 /\ p[1] <= conf.size[1]
              /\ p[2] >= 0 /\ p[2] <= conf.size[2]
        /\ \A p \in DOMAIN food : food[p] = 1
        /\ \A p \in DOMAIN keys : keys[p] = 1
        /\ DOMAIN food \cap DOMAIN keys = {}

\* a constructed Zoo whose two food units and two keys fill its four places
C16_Witness ==
    /\ an.pc = "done"
    /\ op = "Zoo"
    /\ given.start_food = 2
    /\ given.start_keys = 2
    /\ Cardinality(DOMAIN food \cup DOMAIN keys) = 4

\* every entry of the multiset items has a count of at least 1
Positive(items) == \A x \in DOMAIN items : items[x] >= 1

\* C17: in every state reached by Zoo construction and step() calls, every
\* entry of the food and key multisets has a count >= 1: the step removes a
\* unit only where the count is positive, and an entry that falls to 0 is
\* deleted, so that having an entry and being a member are the same.
C17_PositiveCounts ==
    /\ Positive(food)
    /\ Positive(keys)
    /\ \A p \in DOMAIN food : MultiSetContains(food, p)
    /\ \A p \in DOMAIN keys : MultiSetContains(keys, p)
    /\ op = "step" =>
          \A id \in DOMAIN tick.log :
              LET e == tick.log[id]
              IN  /\ Positive(e.food_fed) /\ Positive(e.keys_fed)
                  /\ Positive(e.food_out) /\ Positive(e.keys_out)
                  /\ \A p \in Support(e.food_in, e.food_fed) :
                        Get(e.food_fed, p) < Get(e.food_in, p) => Get(e.food_in, p) >= 1
                  /\ \A p \in Support(e.keys_in, e.keys_fed) :
                        Get(e.keys_fed, p) < Get(e.keys_in, p) => Get(e.keys_in, p) >= 1

\* a step in which a mouth ate the last food unit of its place and a mouth
\* took the last key of its place
C17_Witness ==
    /\ Stepped
    /\ \E id \in DOMAIN tick.log :
          \E p \in DOMAIN tick.log[id].food_in :
              tick.log[id].food_in[p] = 1 /\ p \notin DOMAIN tick.log[id].food_fed
    /\ \E id \in DOMAIN tick.log :
          \E p \in DOMAIN tick.log[id].keys_in :
              tick.log[id].keys_in[p] = 1 /\ p \notin DOMAIN tick.log[id].keys_fed

\* C18: a mouth whose place holds both food and a key when it is processed
\* does both in that tick: one food unit is removed there and the creature
\* gains energy_gain, and one key is removed there and a newborn is spawned
\* at that place.
C18_FoodAndKey ==
    Stepped =>
        \A id \in DOMAIN tick.log :
            LET e == tick.log[id]
            IN  \A m \in e.before.mouths :
                    LET p == Place(e.before, m)
                    IN  (Get(e.food_in, p) >= 1 /\ Get(e.keys_in, p) >= 1) =>
                          /\ Get(e.food_fed, p) = Get(e.food_in, p) - 1
                          /\ Get(e.keys_fed, p) = Get(e.keys_in, p) - 1
                          /\ e.after.energy >= e.before.energy
                                - conf.energy_loss + conf.energy_gain
                          /\ \E b \in Newborns :
                                /\ b \in e.born
                                /\ creatures[b].position = p

\* a creature whose mouth found a food unit and a key at its place
C18_Witness ==
    /\ Stepped
    /\ \E id \in DOMAIN tick.log :
          \E m \in tick.log[id].before.mouths :
              /\ Get(tick.log[id].food_in, Place(tick.log[id].before, m)) >= 1
              /\ Get(tick.log[id].keys_in, Place(tick.log[id].before, m)) >= 1
              /\ tick.log[id].born # {}

\* C19: remove_random_cell removes one cell that is not the head and has
\* exactly one living neighbour, or fails and leaves the cells as they were;
\* on a valid body it fails exactly when the body is the head alone, and
\* mutate then adds a cell instead.
C19_RemoveLeaf ==
    [][ /\ op' = "remove_random_cell" =>
              LET removed == creature.cells \ creature'.cells
              IN  /\ error' = "none"
                  /\ creature.cells # {creature.head}
                  /\ creature'.cells \subseteq creature.cells
                  /\ Cardinality(removed) = 1
                  /\ \A x \in removed :
                        /\ x # creature.head
                        /\ Cardinality(neighbours(x) \cap creature.cells) = 1
                  /\ creature'.head = creature.head
                  /\ creature'.head \in creature'.cells
        /\ op' = "remove_random_cell failed" =>
              /\ error' = "none"
              /\ creature'.cells = creature.cells
              /\ creature.cells = {creature.head}
        /\ creature.cells = {creature.head} =>
              \A o \in mutate(creature, 1) :
                  /\ o.raised = "none"
                  /\ o.ret
                  /\ creature.cells \subseteq o.c.cells
                  /\ Cardinality(o.c.cells) = 2 ]_vars

\* the head alone, on which remove_random_cell has just failed
C19_Witness ==
    /\ op = "remove_random_cell failed"
    /\ error = "none"
    /\ creature.cells = {creature.head}

\* a coordinate wrapped by the size of its axis
Wrapped(x, size) == IF x < 0 THEN x + size ELSE IF x > size THEN x - size ELSE x

\* C20: on an axis with wrapping, a coordinate below 0 after the movement
\* has the axis size added and one above the size has it subtracted, and the
\* body is neither mirrored nor analysed again for that axis: unless the
\* other axis bounced, cells, mouths and movement are as before and the
\* cursor is only advanced by the move; if the other axis bounced, the cells
\* are those of that axis's mirror alone.
C20_Wrap ==
    Stepped =>
        \A id \in DOMAIN tick.log :
            LET b == tick.log[id].before
                a == tick.log[id].after
                v == b.movement[b.cursor + 1]
                x == b.position[1] + v[1]
                y == b.position[2] + v[2]
                outX == x < 0 \/ x > conf.size[1]
                outY == y < 0 \/ y > conf.size[2]
                flipX == ~conf.wrap_horizontal /\ outX
                flipY == ~conf.wrap_vertical /\ outY
            IN  /\ conf.wrap_horizontal => a.position[1] = Wrapped(x, conf.size[1])
                /\ conf.wrap_vertical => a.position[2] = Wrapped(y, conf.size[2])
                /\ (~flipX /\ ~flipY) =>
                      /\ a.cells = b.cells
                      /\ a.mouths = b.mouths
                      /\ a.movement = b.movement
                      /\ a.cursor = (b.cursor + 1) % Len(b.movement)
                /\ (conf.wrap_horizontal /\ outX /\ flipY) =>
                      a.cells \in { o.c.cells : o \in mirror_vertical(b) }
                /\ (conf.wrap_vertical /\ outY /\ flipX) =>
                      a.cells \in { o.c.cells : o \in mirror_horizontal(b) }

\* a creature that left the wider world to the left and came back in at
\* x = -1 + size, its body as it was
C20_Witness ==
    /\ Stepped
    /\ conf.wrap_horizontal
    /\ conf.size[1] = 2
    /\ \E id \in DOMAIN tick.log :
          LET b == tick.log[id].before
              a == tick.log[id].after
          IN  /\ b.position[1] + b.movement[b.cursor + 1][1] < 0
              /\ a.position[1] = 1
              /\ a.cells = b.cells
              /\ Cardinality(a.cells) > 1

\* the cells turned 90 degrees left, and right, about (0,0)
TurnedLeft(cells) == { <<-c[2], c[1]>> : c \in cells }

TurnedRight(cells) == { <<c[2], -c[1]>> : c \in cells }

\* the number of cells in which two cell sets differ
Differ(A, B) == Cardinality(A \ B) + Cardinality(B \ A)

\* C21: a newborn's cells come from its parent's cells as they are when the
\* mouth finds the key, before the parent moves: with mutation_probability 0
\* they are those cells turned 90 degrees left or right about the head;
\* otherwise they are such a turn, or such a turn with exactly one cell added
\* or removed; the newborn has at most one cell more or less than the parent.
C21_NewbornCells ==
    Stepped =>
        \A id \in DOMAIN tick.log :
            \A b \in tick.log[id].born :
                LET parent == tick.log[id].before.cells
                    newborn == creatures[b].cells
                    turns == { TurnedLeft(parent), TurnedRight(parent) }
                IN  /\ conf.mutation_probability = 0 => newborn \in turns
                    /\ \E t \in turns : Differ(newborn, t) <= 1
                    /\ Differ(newborn, TurnedLeft(parent)) = 1 \/
                       Differ(newborn, TurnedRight(parent)) = 1 =>
                          Cardinality(newborn) # Cardinality(parent)
                    /\ Cardinality(newborn) - Cardinality(parent) \in {-1, 0, 1}

\* the cells of S with exactly one neighbour in S
Leaves(S) == { c \in S : Cardinality(neighbours(c) \cap S) = 1 }

\* the sum over the leaves in L of the unit vector from the leaf to its only
\* neighbour in S
RECURSIVE LeafSum(_, _)
LeafSum(S, L) ==
    IF L = {} THEN <<0, 0>>
    ELSE LET c == CHOOSE x \in L : TRUE
             n == CHOOSE x \in neighbours(c) \cap S : TRUE
             r == LeafSum(S, L \ {c})
         IN  <<n[1] - c[1] + r[1], n[2] - c[2] + r[2]>>

\* C22: the bias (horizontal, vertical) of a completed analysis is the sum,
\* over the cells with exactly one living neighbour, the head included when
\* it is one, of the unit vector from the cell to that neighbour, whatever
\* the order of the visits; for a single cell it is (0,0).
C22_LeafBias ==
    an.pc = "done" =>
        /\ <<an.horizontal, an.vertical>> = LeafSum(given.cells, Leaves(given.cells))
        /\ <<an.horizontal, an.vertical>> = LeafSum(creature.cells, Leaves(creature.cells))
        /\ Cardinality(given.cells) = 1 => an.horizontal = 0 /\ an.vertical = 0

\* an analysed body of three leaves, the head one of them, with a bias
C22_Witness ==
    /\ an.pc = "done"
    /\ given.head \in Leaves(given.cells)
    /\ Cardinality(Leaves(given.cells)) = 3
    /\ an.horizontal # 0

\* C23: over every step() that returns, the number of key units plus the
\* number of live creatures stays what it was: a reproduction takes one key
\* and adds one creature, a death removes one creature and leaves one key.
C23_KeysPlusCreatures ==
    [][ error' = "none" =>
          MultiSetLen(keys') + Cardinality(DOMAIN creatures')
              = MultiSetLen(keys) + Cardinality(DOMAIN creatures) ]_vars

\* C24: after a step() every live creature the step processed has, on an
\* axis without wrapping, its coordinate within 0..size; on an axis with
\* wrapping it has so if its coordinate before the step was within 0..size
\* and the size is at least 1.
C24_InsideWorld ==
    Stepped =>
        \A id \in DOMAIN creatures \ Newborns :
            LET a == creatures[id]
                b == tick.log[id].before
            IN  /\ ~conf.wrap_horizontal => a.position[1] \in 0..conf.size[1]
                /\ ~conf.wrap_vertical => a.position[2] \in 0..conf.size[2]
                /\ (conf.wrap_horizontal /\ conf.size[1] >= 1
                    /\ b.position[1] \in 0..conf.size[1]) =>
                       a.position[1] \in 0..conf.size[1]
                /\ (conf.wrap_vertical /\ conf.size[2] >= 1
                    /\ b.position[2] \in 0..conf.size[2]) =>
                       a.position[2] \in 0..conf.size[2]

\* a creature alive after a step that took it below 0 on the vertical axis
\* of a world that wraps horizontally only
C24_Witness ==
    /\ Stepped
    /\ conf.wrap_horizontal
    /\ ~conf.wrap_vertical
    /\ \E id \in DOMAIN creatures \ Newborns :
          LET b == tick.log[id].before
          IN  /\ b.position[2] + b.movement[b.cursor + 1][2] < 0
              /\ creatures[id].position[2] = 0

\* the creatures the last step processed that had a mouth at place p
MouthsAt(p) ==
    { id \in DOMAIN tick.log :
        \E m \in tick.log[id].before.mouths : Place(tick.log[id].before, m) = p }

\* the places of the mouths of the creatures the last step processed
MouthPlaces ==
    UNION { { Place(tick.log[id].before, m) : m \in tick.log[id].before.mouths }
            : id \in DOMAIN tick.log }

\* C25: when two or more creatures have a mouth at one place, the place
\* holds exactly one food unit (or one key) when the tick starts and no death
\* of the tick deposits a unit of that kind there, exactly one of them gains
\* energy_gain from it (or spawns a newborn there): the one whose pass still
\* found the unit, every other one being processed after it was gone.
C25_SharedMouth ==
    Stepped =>
        \A p \in MouthPlaces :
            LET sharers == MouthsAt(p)
                eaters == { id \in sharers : Get(tick.log[id].food_in, p) >= 1 }
                parents == { id \in sharers : Get(tick.log[id].keys_in, p) >= 1 }
            IN  Cardinality(sharers) >= 2 =>
                  /\ (/\ Get(tick.food0, p) = 1
                      /\ \A id \in DOMAIN tick.log :
                            Get(tick.log[id].food_out, p) = Get(tick.log[id].food_fed, p)) =>
                        /\ Cardinality(eaters) = 1
                        /\ Get(food, p) = 0
                        /\ \A id \in sharers :
                              LET e == tick.log[id]
                                  others == { m \in e.before.mouths :
                                                /\ Place(e.before, m) # p
                                                /\ Get(e.food_in, Place(e.before, m)) >= 1 }
                              IN  e.after.energy =
                                     e.before.energy - conf.energy_loss
                                     + conf.energy_gain * Cardinality(others)
                                     + (IF id \in eaters THEN conf.energy_gain ELSE 0)
                  /\ (/\ Get(tick.keys0, p) = 1
                      /\ \A id \in DOMAIN tick.log :
                            Get(tick.log[id].keys_out, p) = Get(tick.log[id].keys_fed, p)) =>
                        /\ Cardinality(parents) = 1
                        /\ Get(keys, p) = 0
                        /\ Cardinality({ b \in Newborns : creatures[b].position = p }) = 1
                        /\ \A id \in sharers \ parents :
                              \A b \in tick.log[id].born : creatures[b].position # p

\* two creatures with a mouth at the place of the one food unit, of which one
\* was fed and the other went without
C25_Witness ==
    /\ Stepped
    /\ \E p \in MouthPlaces :
          /\ Cardinality(MouthsAt(p)) >= 2
          /\ Get(tick.food0, p) = 1
          /\ Get(food, p) = 0
          /\ \E id \in MouthsAt(p) :
                tick.log[id].after.energy =
                    tick.log[id].before.energy - conf.energy_loss + conf.energy_gain
          /\ \E id \in MouthsAt(p) :
                tick.log[id].after.energy =
                    tick.log[id].before.energy - conf.energy_loss

\* the net bias of an analysed creature: the sum of its movement cycle
Bias(c) == SumVectors(c.movement)

\* a vector with its x negated if fx, its y negated if fy
FlipVector(v, fx, fy) ==
    <<IF fx THEN -v[1] ELSE v[1], IF fy THEN -v[2] ELSE v[2]>>

\* outcome o of a mirror of creature c is the image of c: bias and mouths
\* mirrored, the movement cycle restarted at its null step
Mirrored(c, o, fx, fy) ==
    /\ o.raised = "none"
    /\ Bias(o.c) = FlipVector(Bias(c), fx, fy)
    /\ <<o.an.horizontal, o.an.vertical>> = FlipVector(Bias(c), fx, fy)
    /\ o.c.mouths = Flip(c.mouths, fx, fy)
    /\ o.c.cursor = 0
    /\ o.c.movement[1] = <<0, 0>>

\* the creature of log entry e left the world on the x axis (n = 1) or the y
\* axis (n = 2) of a world that does not wrap there, and was bounced back
Bounced(e, n) ==
    LET to == e.before.position[n] + NextVector(e.before)[n]
    IN  /\ ~(IF n = 1 THEN conf.wrap_horizontal ELSE conf.wrap_vertical)
        /\ (to < 0 \/ to > conf.size[n])

\* C26: for a valid body with net bias (h, v) and mouth set M,
\* mirror_horizontal gives bias (-h, v) and M with every x negated,
\* mirror_vertical gives bias (h, -v) and M with every y negated; and a
\* creature bounced at a boundary that does not wrap has, after the step, its
\* bias on that axis reversed, its mouths mirrored and its movement cycle at
\* the null step (0,0).
C26_MirrorEquivariance ==
    Stepped =>
        /\ \A id \in DOMAIN creatures :
              creatures[id].head = <<0, 0>> =>
                /\ \A o \in mirror_horizontal(creatures[id]) :
                      Mirrored(creatures[id], o, TRUE, FALSE)
                /\ \A o \in mirror_vertical(creatures[id]) :
                      Mirrored(creatures[id], o, FALSE, TRUE)
        /\ \A id \in DOMAIN tick.log :
              LET e == tick.log[id]
                  fx == Bounced(e, 1)
                  fy == Bounced(e, 2)
              IN  (e.before.head = <<0, 0>> /\ (fx \/ fy)) =>
                    /\ Bias(e.after) = FlipVector(Bias(e.before), fx, fy)
                    /\ e.after.mouths = Flip(e.before.mouths, fx, fy)
                    /\ e.after.cursor = 0
                    /\ e.after.movement[1] = <<0, 0>>

\* a creature with a mouth, moving down, bounced at the lower boundary: it
\* now moves up, its mouth is mirrored and its cycle is at the null step
C26_Witness ==
    /\ Stepped
    /\ \E id \in DOMAIN tick.log :
          LET e == tick.log[id]
          IN  /\ e.before.head = <<0, 0>>
              /\ Bounced(e, 2)
              /\ Bias(e.before)[2] < 0
              /\ Bias(e.after)[2] > 0
              /\ e.before.mouths # {}
              /\ e.after.mouths # e.before.mouths
              /\ e.after.cursor = 0

====
